---- MODULE Spec2Model ----
(***************************************************************************)
(* Model of src/index.js: a command-line chat client that opens one        *)
(* WebSocket to a realtime language-model service, sends a greeting turn,  *)
(* and then, for every response.done event it receives, prompts the human  *)
(* and sends the answer as the next turn.                                  *)
(*                                                                         *)
(* The program is single-threaded JavaScript.  Every listener runs to      *)
(* completion; the only place where the environment (server, transport)    *)
(* acts while a listener is on the stack is the synchronous, blocking      *)
(* question() call, so the message listener is modelled in two steps, one  *)
(* up to question() and one from its return.                               *)
(*                                                                         *)
(* The environment: the transport delivers events in FIFO order (inbox);   *)
(* the server emits any number of non-terminal events and one              *)
(* response.done per response.create it was sent; the transport may fail   *)
(* at any time.                                                            *)
(***************************************************************************)
EXTENDS Naturals, Sequences, FiniteSets

\* ---------------------------------------------------------------- bounds
\* Turns the model follows (the greeting included).
MaxTurns == 3
\* Non-terminal events the server emits in one run.
MaxNoise == 1
\* Events waiting in the socket while the program is busy.
MaxInbox == 2

\* Strings the human types at the prompt (the empty line included).
Inputs == {"", "hi"}

\* ------------------------------------------------- the two instruction
\* strings, line by line, as the template literals of the source hold them
InitInstructions ==
  << "Based on the reply being generated send an appropriate animation and facialExpression based on the provided animations and expressions.",
     "        Also use a JSON structure for formatting the output composed of an array of items with each item composed of facialExpression, animation and a text.",
     "        If the generated reply exceeds 30 words split into multiple items",
     "        The different facial expressions are: 'Neutral', 'Smile', 'Sad', 'Happy', 'Angry', 'Confused', 'Surprised', 'Disgusted', 'Fearful', 'Thoughtful', 'Skeptical', 'Tired', 'Relieved',  'Annoyed',",
     "        'Intrigued', 'Excited', 'Shy', 'Nervous', 'Disagreeing', 'Focused'.",
     "        The different animations are: ",
     "        M_Talking_Variations_001: neutral talking",
     "        M_Talking_Variations_002: talking with hands",
     "        M_Talking_Variations_003: talking with hands",
     "        M_Talking_Variations_007: talking with hands",
     "        M_Talking_Variations_009: talking with hands",
     "        F_Talking_Variations_002: talking with hands",
     "        M_Standing_Expressions_004: talking and nodding head",
     "        M_Standing_Expressions_002: pointing with index in front",
     "        M_Standing_Expressions_001: waving gesture with one hand",
     "        M_Standing_Expressions_012: approving with thumbs up",
     "        M_Standing_Expressions_010: come to me gesture",
     "        M_Talking_Variations_005: talking and explaining",
     "        M_Talking_Variations_006 talking and explaining",
     "        F_Talking_Variations_002 talking opening arms",
     "        ",
     "        STRICTLY FOLLOW JSON FORMAT.",
     "        LET REPLY GENERATED BE ALWAYS AN ARRAY OF JSON OBJECTS EVEN IF THERE IS ONLY A SINGLE ITEM.",
     "        SEND THE OUTPUT AS AN ARRAY OF JSON OBJECTS, DOUBLE QUOTES AROUND KEYS AND VALUES, HERE'S AN EXAMPLE:",
     "        [{'animation':'M_Standing_Expressions_001','facialExpression':'Happy', 'text': 'Hello! How can I assist you today?'},{'animation':'M_Standing_Expressions_001','facialExpression':'Happy', 'text': 'Hello! How can I assist you today?'},{'animation':'M_Standing_Expressions_001','facialExpression':'Happy', 'text': 'Hello! How can I assist you today?'}]" >>

SendInstructions ==
  << "Based on the reply being generated send an appropriate animation and facialExpression based on the provided animations and expressions.",
     "        Also use a JSON structure for formatting the output composed of an array of items with each item composed of facialExpression, animation and a text.",
     "        If the generated reply exceeds 30 words split into multiple items.",
     "        The different facial expressions are: 'Neutral', 'Smile', 'Sad', 'Happy', 'Angry', 'Confused', 'Surprised', 'Disgusted', 'Fearful', 'Thoughtful', 'Skeptical', 'Tired', 'Relieved',  'Annoyed',",
     "        'Intrigued', 'Excited', 'Shy', 'Nervous', 'Disagreeing', 'Focused'.",
     "        The different animations are: ",
     "        M_Talking_Variations_001: neutral talking",
     "        M_Talking_Variations_002: talking with hands",
     "        M_Talking_Variations_003: talking with hands",
     "        M_Talking_Variations_007: talking with hands",
     "        M_Talking_Variations_009: talking with hands",
     "        F_Talking_Variations_002: talking with hands",
     "        M_Standing_Expressions_004: talking and nodding head",
     "        M_Standing_Expressions_002: pointing with index in front",
     "        M_Standing_Expressions_001: waving gesture with one hand",
     "        M_Standing_Expressions_012: approving with thumbs up",
     "        M_Standing_Expressions_010: come to me gesture",
     "        M_Talking_Variations_005: talking and explaining",
     "        M_Talking_Variations_006 talking and explaining",
     "        F_Talking_Variations_002 talking opening arms",
     "        ",
     "        STRICTLY FOLLOW JSON FORMAT.",
     "        LET REPLY GENERATED BE ALWAYS AN ARRAY OF JSON OBJECTS EVEN IF THERE IS ONLY A SINGLE ITEM",
     "        SEND THE OUTPUT AS AN ARRAY OF JSONS, DOUBLE QUOTES AROUND KEYS AND VALUES, HERE'S AN EXAMPLE:",
     "        [{'animation':'M_Standing_Expressions_001','facialExpression':'Happy', 'text': 'Hello! How can I assist you today?'},{'animation':'M_Standing_Expressions_001','facialExpression':'Happy', 'text': 'Hello! How can I assist you today?'},{'animation':'M_Standing_Expressions_001','facialExpression':'Happy', 'text': 'Hello! How can I assist you today?'}]" >>

\* ------------------------------------------------------ outbound messages
ItemCreate(text) ==
  [ type         |-> "conversation.item.create",
    item         |-> [ type    |-> "message",
                       role    |-> "user",
                       content |-> << [type |-> "input_text", text |-> text] >> ],
    modalities   |-> << >>,
    instructions |-> << >> ]

NoItem == [ type |-> "", role |-> "", content |-> << >> ]

ResponseCreate(instructions) ==
  [ type         |-> "response.create",
    item         |-> NoItem,
    modalities   |-> << "text" >>,
    instructions |-> instructions ]

\* initializeConversation(ws): the two ws.send calls, in order.
initializeConversation ==
  << ItemCreate("Hello"), ResponseCreate(InitInstructions) >>

\* sendMessage with the trigger left out.
sendMessageContentOnly(userInput) == << ItemCreate(userInput) >>

\* sendMessage with an empty line replaced by the greeting text (userInput || 'Hello').
sendMessageDefaulted(userInput) ==
  << ItemCreate(IF userInput = "" THEN "Hello" ELSE userInput),
     ResponseCreate(SendInstructions) >>

\* sendMessage with the trigger carrying no instructions.
sendMessageBare(userInput) == << ItemCreate(userInput), ResponseCreate(<< >>) >>

\* sendMessage(ws, userInput): the two ws.send calls, in order.
sendMessage(userInput) ==
  << ItemCreate(userInput), ResponseCreate(SendInstructions) >>

\* ------------------------------------------------------- inbound events
\* A parsed inbound document: { type, response?: { status?, output?: [ { content? } ] } }.
\* An absent member is a record whose "present" is FALSE.
NoOutput == [ present |-> FALSE, items |-> << >> ]

EmptyOutput == [ present |-> TRUE, items |-> << >> ]

NoResponse == [ present |-> FALSE, status |-> "", output |-> NoOutput ]

Response(status, output) == [ present |-> TRUE, status |-> status, output |-> output ]

\* output: [ { content: [ { type: "text", text: raw } ] } ]
TextOutput(raw) ==
  [ present |-> TRUE,
    items   |-> << [ hasContent |-> TRUE,
                     content    |-> << [type |-> "text", text |-> raw] >> ] >> ]

Event(type, response) == [ type |-> type, response |-> response ]

\* Reply texts a model produces: the array the contract asks for, and prose.
RawReplies ==
  { "[{\"animation\":\"M_Standing_Expressions_001\",\"facialExpression\":\"Happy\",\"text\":\"Hi there!\"}]",
    "not json" }

\* Events that do not end a turn; some carry a response with the failure status.
NonTerminalEvents ==
  { Event(t, r) : t \in {"session.created", "error"},
                  r \in {NoResponse, Response("failed", NoOutput)} }

\* The events that end a turn.
DoneEvents ==
  { Event("response.done", r) :
      r \in {NoResponse, Response("completed", NoOutput), Response("failed", EmptyOutput)}
            \cup { Response("completed", TextOutput(raw)) : raw \in RawReplies } }

Undefined == [ defined |-> FALSE, value |-> << >> ]

\* The failure test on the event's type instead of its response status.
IsFailedByType(m) == m.type = "error"

\* parsedMessage?.response?.status === 'failed'
IsFailed(m) == m.response.present /\ m.response.status = "failed"

\* The terminal test also taking an event with the failure status for terminal.
IsDoneOrFailed(m) == m.type = "response.done" \/ (m.response.present /\ m.response.status = "failed")

\* The terminal test also taking an API error event for terminal.
IsDoneOrError(m) == m.type \in {"response.done", "error"}

\* The terminal test on the response status instead of the event's type.
IsDoneByStatus(m) == m.response.present /\ m.response.status = "completed"

\* parsedMessage?.type == 'response.done'
IsDone(m) == m.type = "response.done"

\* parsedMessage?.response?.output?.[0]?.content
Content(m) ==
  IF ~m.response.present THEN Undefined
  ELSE IF ~m.response.output.present THEN Undefined
  ELSE IF Len(m.response.output.items) = 0 THEN Undefined
  ELSE IF ~m.response.output.items[1].hasContent THEN Undefined
  ELSE [ defined |-> TRUE, value |-> m.response.output.items[1].content ]

\* A member access raises a TypeError when what it is applied to is absent, unless
\* it is written as an optional chain (?.).
AccessRaises(optional, parentPresent) == ~optional /\ ~parentPresent

\* The same accesses written without optional chaining:
\* parsedMessage.response.output[0].content
ContentRaisesStrict(m) ==
  \/ AccessRaises(FALSE, m.response.present)
  \/ AccessRaises(FALSE, m.response.present /\ m.response.output.present)
  \/ AccessRaises(FALSE, m.response.present /\ m.response.output.present
                            /\ Len(m.response.output.items) > 0)

\* Whether evaluating parsedMessage?.response?.output?.[0]?.content raises: the
\* accesses .output, [0] and .content, each an optional chain.
ContentRaises(m) ==
  \/ AccessRaises(TRUE, m.response.present)
  \/ AccessRaises(TRUE, m.response.present /\ m.response.output.present)
  \/ AccessRaises(TRUE, m.response.present /\ m.response.output.present
                           /\ Len(m.response.output.items) > 0)

\* ----------------------------------------------------------------- state
VARIABLES
  pc,             \* where the program is: start, connecting, resolved, idle, prompting, exited
  wsState,        \* the socket as the program sees it: none, connecting, open, closing, closed
  netUp,          \* the transport is alive (the environment's side of the socket)
  attempts,       \* WebSocket objects constructed
  promise,        \* the promise connectToOpenAPI returned: none, pending, resolved, rejected
  inbox,          \* events the transport holds for the program, oldest first
  outbound,       \* every document passed to ws.send, in order
  console,        \* the diagnostics printed so far
  messageListener,\* ws.on('message', ...) has been called
  errorListener,  \* handleError's ws.on('error', ...) has been called
  handled,        \* 'message' events the listener has run for
  parsedMessage,  \* the document the listener ran for last
  received,       \* the value printed after 'Received message:' last
  prompts,        \* calls of question('Your message: ')
  inputs,         \* what the human typed, in order
  donesObserved,  \* handled events whose type is response.done
  srvDone,        \* response.done events the server has emitted
  noise           \* non-terminal events the server has emitted

vars ==
  << pc, wsState, netUp, attempts, promise, inbox, outbound, console, messageListener,
     errorListener, handled, parsedMessage, received, prompts, inputs,
     donesObserved, srvDone, noise >>

\* Turns sent so far: one response.create each.
NumTurns(log) == Cardinality({ i \in 1..Len(log) : log[i].type = "response.create" })

MessageEvent(m) == [ kind |-> "message", msg |-> m ]

ErrorEvent == [ kind |-> "error", msg |-> Event("", NoResponse) ]

CloseEvent == [ kind |-> "close", msg |-> Event("", NoResponse) ]

Init ==
  /\ pc = "start"
  /\ wsState = "none"
  /\ netUp = FALSE
  /\ attempts = 0
  /\ promise = "none"
  /\ inbox = << >>
  /\ outbound = << >>
  /\ console = {}
  /\ messageListener = FALSE
  /\ errorListener = FALSE
  /\ handled = 0
  /\ parsedMessage = Event("", NoResponse)
  /\ received = Undefined
  /\ prompts = 0
  /\ inputs = << >>
  /\ donesObserved = 0
  /\ srvDone = 0
  /\ noise = 0

\* ------------------------------------------------------------ the program
\* run() up to its await: connectToOpenAPI() constructs the socket.
Run ==
  /\ pc = "start"
  /\ pc' = "connecting"
  /\ wsState' = "connecting"
  /\ netUp' = TRUE
  /\ attempts' = attempts + 1
  /\ promise' = "pending"
  /\ UNCHANGED << inbox, outbound, console, messageListener, errorListener, handled,
                  parsedMessage, received, prompts, inputs, donesObserved, srvDone, noise >>

\* ws.on('open'): log and resolve(ws).
OnOpen ==
  /\ pc = "connecting"
  /\ netUp
  /\ wsState' = "open"
  /\ console' = console \cup {"Connected to OpenAI"}
  /\ pc' = "resolved"
  /\ promise' = "resolved"
  /\ UNCHANGED << netUp, attempts, inbox, outbound, messageListener, errorListener, handled,
                  parsedMessage, received, prompts, inputs, donesObserved, srvDone, noise >>

\* ws.on('error') before 'open': log and reject(err); run's catch logs; nothing is
\* left to wait for and the process ends.
OnConnectError ==
  /\ pc = "connecting"
  /\ wsState' = "closed"
  /\ netUp' = FALSE
  /\ console' = console \cup {"Connection error:", "Failed to run the chatbot:"}
  /\ pc' = "exited"
  /\ promise' = "rejected"
  /\ UNCHANGED << attempts, inbox, outbound, messageListener, errorListener, handled,
                  parsedMessage, received, prompts, inputs, donesObserved, srvDone, noise >>

\* run() going on without the await.
AwaitSkipped == pc \in {"connecting", "resolved"}

\* The await of run() has a value.
AwaitSettled == pc = "resolved"

\* run() after the await: initializeConversation(ws), handleIncomingMessages(ws),
\* handleError().  handleError reads the name ws, which no scope of the module
\* binds: it throws a ReferenceError before it registers anything, and run's catch
\* logs it.
RunAfterConnect ==
  /\ AwaitSettled
  /\ outbound' = outbound \o initializeConversation
  /\ messageListener' = TRUE
  /\ errorListener' = FALSE
  /\ console' = console \cup {"Failed to run the chatbot:"}
  /\ pc' = "idle"
  /\ UNCHANGED << promise, wsState, netUp, attempts, inbox, handled, parsedMessage, received,
                  prompts, inputs, donesObserved, srvDone, noise >>

\* A 'message' event emitted between the 'open' listener's resolve(ws) and the
\* continuation of run's await: data that came with the handshake response is
\* emitted when the socket's flow resumes, on process.nextTick, and the tick
\* queue is run before the promise jobs.  handleIncomingMessages(ws) has not run
\* yet, so the event has no listener and is dropped.  Whether the socket emits
\* that early depends on the arrival of the data and on the version of ws; the
\* continuation running first is the other outcome (RunAfterConnect).
OnMessageUnheard ==
  /\ pc = "resolved"
  /\ ~messageListener
  /\ inbox # << >>
  /\ Head(inbox).kind = "message"
  /\ inbox' = Tail(inbox)
  /\ UNCHANGED << pc, wsState, netUp, attempts, promise, outbound, console, messageListener,
                  errorListener, handled, parsedMessage, received, prompts, inputs,
                  donesObserved, srvDone, noise >>

\* The 'message' listener up to the return of question(): parse, log, the two ifs.
\* An exception raised inside the listener is caught by nothing: the process dies.
OnMessage ==
  /\ pc = "idle"
  /\ messageListener
  /\ inbox # << >>
  /\ Head(inbox).kind = "message"
  /\ LET m == Head(inbox).msg IN
       /\ inbox' = Tail(inbox)
       /\ handled' = handled + 1
       /\ parsedMessage' = m
       /\ donesObserved' = IF m.type = "response.done" THEN donesObserved + 1 ELSE donesObserved
       /\ console' = console
                     \cup (IF IsFailed(m) THEN {"Something went wrong...Keep messaging"} ELSE {})
                     \cup (IF IsDone(m) /\ ~ContentRaises(m) THEN {"Received message:"} ELSE {})
       /\ IF IsDone(m) /\ ContentRaises(m)
            THEN /\ pc' = "exited"
                 /\ wsState' = "closed"
                 /\ UNCHANGED << received, prompts >>
            ELSE IF IsDone(m)
            THEN /\ received' = Content(m)
                 /\ prompts' = prompts + 1
                 /\ pc' = "prompting"
                 /\ UNCHANGED wsState
            ELSE UNCHANGED << received, prompts, pc, wsState >>
  /\ UNCHANGED << promise, netUp, attempts, outbound, messageListener, errorListener,
                  inputs, srvDone, noise >>

\* question() returns what the human typed; sendMessage(ws, userInput).
HumanInput ==
  /\ pc = "prompting"
  /\ NumTurns(outbound) < MaxTurns
  /\ \E userInput \in Inputs :
       /\ inputs' = Append(inputs, userInput)
       /\ outbound' = outbound \o sendMessage(userInput)
  /\ pc' = "idle"
  /\ UNCHANGED << promise, wsState, netUp, attempts, inbox, console, messageListener, errorListener,
                  handled, parsedMessage, received, prompts, donesObserved, srvDone, noise >>

\* ws.on('error') after 'open': the listener connectToOpenAPI registered is the only
\* one; it logs, and its reject(err) changes nothing on a resolved promise.
OnError ==
  /\ pc = "idle"
  /\ inbox # << >>
  /\ Head(inbox).kind = "error"
  /\ inbox' = Tail(inbox)
  /\ console' = console \cup {"Connection error:"}
  /\ wsState' = "closing"
  /\ promise' = (IF promise = "pending" THEN "rejected" ELSE promise)
  /\ UNCHANGED << pc, netUp, attempts, outbound, messageListener, errorListener, handled,
                  parsedMessage, received, prompts, inputs, donesObserved, srvDone, noise >>

\* 'close': no listener is registered for it; the socket was the last thing the
\* event loop waited for, so the process ends.
OnClose ==
  /\ pc = "idle"
  /\ inbox # << >>
  /\ Head(inbox).kind = "close"
  /\ inbox' = Tail(inbox)
  /\ wsState' = "closed"
  /\ pc' = "exited"
  /\ UNCHANGED << promise, netUp, attempts, outbound, console, messageListener, errorListener, handled,
                  parsedMessage, received, prompts, inputs, donesObserved, srvDone, noise >>

\* -------------------------------------------------------- the environment
\* The server emits an event that ends no turn.
ServerNoise ==
  /\ netUp
  /\ wsState = "open"
  /\ noise < MaxNoise
  /\ Len(inbox) < MaxInbox
  /\ \E e \in NonTerminalEvents : inbox' = Append(inbox, MessageEvent(e))
  /\ noise' = noise + 1
  /\ UNCHANGED << promise, pc, wsState, netUp, attempts, outbound, console, messageListener,
                  errorListener, handled, parsedMessage, received, prompts, inputs,
                  donesObserved, srvDone >>

\* The server ends the oldest response it was asked for and has not ended yet.
ServerDone ==
  /\ netUp
  /\ wsState = "open"
  /\ srvDone < NumTurns(outbound)
  /\ Len(inbox) < MaxInbox
  /\ \E e \in DoneEvents : inbox' = Append(inbox, MessageEvent(e))
  /\ srvDone' = srvDone + 1
  /\ UNCHANGED << promise, pc, wsState, netUp, attempts, outbound, console, messageListener,
                  errorListener, handled, parsedMessage, received, prompts, inputs,
                  donesObserved, noise >>

\* The connection ends after 'open': with an 'error' event followed by 'close', or
\* with 'close' alone.  Nothing is delivered after 'close'.
TransportFail ==
  /\ netUp
  /\ wsState = "open"
  /\ netUp' = FALSE
  /\ \E withError \in BOOLEAN :
       inbox' = inbox \o (IF withError THEN << ErrorEvent >> ELSE << >>) \o << CloseEvent >>
  /\ UNCHANGED << promise, pc, wsState, attempts, outbound, console, messageListener, errorListener,
                  handled, parsedMessage, received, prompts, inputs, donesObserved,
                  srvDone, noise >>

Next ==
  \/ Run
  \/ OnOpen
  \/ OnConnectError
  \/ RunAfterConnect
  \/ OnMessageUnheard
  \/ OnMessage
  \/ HumanInput
  \/ OnError
  \/ OnClose
  \/ ServerNoise
  \/ ServerDone
  \/ TransportFail

Spec == Init /\ [][Next]_vars

\* The event loop runs every continuation and listener that is ready, and the
\* server answers every response.create while the connection lasts.  Nothing
\* obliges the network to deliver 'open' or 'error', the human to answer, or the
\* transport to fail.
FairSpec ==
  /\ Spec
  /\ WF_vars(RunAfterConnect)
  /\ WF_vars(OnMessage)
  /\ WF_vars(OnError)
  /\ WF_vars(OnClose)
  /\ WF_vars(ServerDone)

\* ------------------------------------------------------------- properties
\* 'Connected to OpenAI' is printed by the 'open' listener and by nothing else.
Opened == "Connected to OpenAI" \in console

FailureLogged == "Something went wrong...Keep messaging" \in console

\* C1: at most one turn is in flight: the turns sent exceed the response.done
\* events the listener has observed by at most one, and while the human is being
\* prompted every turn sent has been observed done.
C1_SingleFlight ==
  /\ NumTurns(outbound) <= donesObserved + 1
  /\ pc = "prompting" => NumTurns(outbound) = donesObserved

\* C1 witness: the third turn was sent after two response.done events and some
\* non-terminal event were handled.
C1_Witness ==
  /\ NumTurns(outbound) = 3
  /\ donesObserved = 2
  /\ handled > donesObserved

\* C2: the outbound log is a sequence of complete pairs, a conversation.item.create
\* immediately followed by a response.create.
C2_MessagePairing ==
  /\ Len(outbound) = 2 * NumTurns(outbound)
  /\ \A i \in 1..Len(outbound) :
       outbound[i].type = (IF i % 2 = 1 THEN "conversation.item.create" ELSE "response.create")

\* C2 witness: the greeting pair and a pair sent by sendMessage are in the log.
C2_Witness == Len(outbound) = 4 /\ Len(inputs) = 1

C4_FailureReportedAndFinal ==
  /\ []((Opened /\ wsState \in {"closing", "closed"}) => "Connection error:" \in console)
  /\ []((Opened /\ wsState = "closed") => pc = "exited")
  /\ [][ (wsState \in {"closing", "closed"}) => (prompts' = prompts /\ outbound' = outbound) ]_vars

\* C5: before 'open' is observed nothing is sent, no message listener is
\* registered and no prompt is issued; a run whose connection failed before
\* opening has reported the failure and ends with no message, no prompt and one
\* connection attempt.
C5_NothingBeforeOpen ==
  /\ ~Opened => (outbound = << >> /\ ~messageListener /\ prompts = 0 /\ handled = 0)
  /\ (pc = "exited" /\ ~Opened) => "Failed to run the chatbot:" \in console
  /\ attempts <= 1

\* C5 witness: the connection failed before opening and the run has ended.
C5_Witness ==
  /\ pc = "exited"
  /\ ~Opened
  /\ "Failed to run the chatbot:" \in console
  /\ attempts = 1

\* C6: the prompts equal the response.done events handled; in a quiescent state
\* the turns sent are one more than the response.done events handled, and while
\* the human is being prompted the answer to the last prompt is the only one
\* outstanding.
C6_PromptPerDone ==
  /\ prompts = donesObserved
  /\ (messageListener /\ pc \in {"idle", "exited"})
       => (NumTurns(outbound) = 1 + donesObserved /\ Len(inputs) = prompts)
  /\ pc = "prompting"
       => (NumTurns(outbound) = donesObserved /\ Len(inputs) + 1 = prompts)

\* C6 witness: a quiescent state after two prompts, with events handled that
\* caused none.
C6_Witness ==
  /\ pc = "idle"
  /\ prompts = 2
  /\ NumTurns(outbound) = 3
  /\ handled > 2

\* A non-empty sequence of {facialExpression, animation, text} records.
IsSegmentSequence(v) ==
  /\ v.defined
  /\ Len(v.value) >= 1
  /\ \A i \in 1..Len(v.value) :
       DOMAIN v.value[i] = {"facialExpression", "animation", "text"}

\* C7 as claimed: whenever a response.done has been handled, what the listener
\* made of the reply is a non-empty sequence of segments.
C7_DecoderTotality == donesObserved > 0 => IsSegmentSequence(received)

\* C8: the first turn's content is the text 'Hello' and is sent without any human
\* input; the content of turn k > 1 has role user and one input_text part whose
\* text is the (k-1)th line the human typed.
C8_TurnContent ==
  /\ NumTurns(outbound) >= 1 => Len(inputs) + 1 = NumTurns(outbound)
  /\ \A k \in 1..NumTurns(outbound) :
       /\ 2 * k - 1 <= Len(outbound)
       /\ LET c == outbound[2 * k - 1] IN
            /\ c.type = "conversation.item.create"
            /\ c.item.type = "message"
            /\ c.item.role = "user"
            /\ Len(c.item.content) = 1
            /\ c.item.content[1].type = "input_text"
            /\ c.item.content[1].text = (IF k = 1 THEN "Hello" ELSE inputs[k - 1])

\* C8 witness: three turns, the human having typed the empty line and then "hi".
C8_Witness ==
  /\ Len(outbound) = 6
  /\ inputs = << "", "hi" >>

\* The vocabulary part of the contract: the expressions, the animations and the
\* format rule (lines 4 to 22 of the instructions).
CarriesContract(instructions) ==
  /\ Len(instructions) = 25
  /\ \A i \in 4..22 : instructions[i] = InitInstructions[i]
  /\ instructions[22] = "        STRICTLY FOLLOW JSON FORMAT."

\* C9: every outbound message is a conversation.item.create or a response.create
\* (no session.update), and every response.create carries modalities ['text'] and
\* the contract instructions.
C9_ContractPerTurn ==
  \A i \in 1..Len(outbound) :
    /\ outbound[i].type \in {"conversation.item.create", "response.create"}
    /\ outbound[i].type = "response.create"
         => (outbound[i].modalities = << "text" >> /\ CarriesContract(outbound[i].instructions))

\* C9 witness: a greeting trigger and a trigger sent by sendMessage are in the log.
C9_Witness ==
  /\ Len(outbound) >= 4
  /\ outbound[2].type = "response.create"
  /\ outbound[4].type = "response.create"

\* C10 as claimed: every response.create carries the instructions string the
\* greeting's response.create carries.
C10_VerbatimContract ==
  \A i \in 1..Len(outbound) :
    outbound[i].type = "response.create" => outbound[i].instructions = outbound[2].instructions

\* C11: handling an event whose type is not response.done changes nothing but
\* the log: nothing is sent, no prompt is issued, the turn is not ended, and the
\* only diagnostic it can add is the failure line.
C11_NonTerminalFrame ==
  [][ (handled' = handled + 1 /\ parsedMessage'.type # "response.done")
      => /\ outbound' = outbound
         /\ prompts' = prompts
         /\ inputs' = inputs
         /\ donesObserved' = donesObserved
         /\ received' = received
         /\ pc' = pc
         /\ wsState' = wsState
         /\ messageListener' = messageListener
         /\ console' \subseteq (console \cup {"Something went wrong...Keep messaging"}) ]_vars

\* C11 witness: an event of another type, without the failure status, was handled
\* while the greeting turn was in flight; the turn is still in flight.
C11_Witness ==
  /\ handled = 1
  /\ parsedMessage.type \in {"session.created", "error"}
  /\ ~parsedMessage.response.present
  /\ ~FailureLogged
  /\ pc = "idle"
  /\ prompts = 0
  /\ Len(outbound) = 2

\* A reply that is absent or not the array the contract asks for: no response, no
\* output, an empty output, or a text that is not JSON.
IsMalformedReply(m) ==
  \/ ~m.response.present
  \/ ~m.response.output.present
  \/ Len(m.response.output.items) = 0
  \/ m.response.output.items[1].content[1].text = "not json"

\* C12: a response.done with a malformed or absent reply is handled as the turn's
\* terminal event: the listener does not raise, the reply line is printed and the
\* human is prompted; and every answer to a prompt sends the next turn.
C12_MalformedDoneStillTerminal ==
  [][ /\ (handled' = handled + 1 /\ parsedMessage'.type = "response.done"
                                 /\ IsMalformedReply(parsedMessage'))
        => (/\ prompts' = prompts + 1
            /\ pc' = "prompting"
            /\ "Received message:" \in console')
      /\ (pc = "prompting" /\ pc' # "prompting")
        => (pc' = "idle" /\ NumTurns(outbound') = NumTurns(outbound) + 1) ]_vars

\* C12 witness: the greeting's response.done carried no response at all; the
\* human was prompted and the next turn was sent.
C12_Witness ==
  /\ handled = 1
  /\ parsedMessage.type = "response.done"
  /\ ~parsedMessage.response.present
  /\ ~received.defined
  /\ prompts = 1
  /\ pc = "idle"
  /\ Len(outbound) = 4

\* C14 as claimed: the promise of connectToOpenAPI always settles, so run does
\* not stay in Connecting for ever even when neither 'open' nor 'error' is
\* delivered; and once settled its outcome never changes.
C14_AlwaysSettlesOnce ==
  /\ (pc = "connecting") ~> (promise \in {"resolved", "rejected"})
  /\ [][ (promise \in {"resolved", "rejected"}) => promise' = promise ]_vars

\* C15 as claimed: the failure diagnostic of run is printed only when the
\* connection attempt failed, and once run's steps after the await are over the
\* 'error' listener of handleError is registered.
C15_FailureBranchOnlyOnConnectFailure ==
  /\ "Failed to run the chatbot:" \in console => promise = "rejected"
  /\ (promise = "resolved" /\ pc # "resolved") => errorListener

\* A turn has been sent and the prompt that follows its response.done has not
\* been issued yet.
TurnInFlight == NumTurns(outbound) > prompts

\* C13: no turn stays in flight for ever: whenever a turn is in flight, later its
\* response.done has been handled and the human prompted, or the process has
\* ended after the transport failed.
C13_TurnProgress == TurnInFlight ~> (~TurnInFlight \/ pc = "exited")

\* C13 witness: the connection ended while a turn typed by the human was in
\* flight, and the process has ended with that turn unanswered.
C13_Witness ==
  /\ pc = "exited"
  /\ Opened
  /\ ~netUp
  /\ Len(inputs) >= 1
  /\ NumTurns(outbound) = prompts + 1

\* 'message' events the transport still holds.
PendingMessages == Cardinality({ i \in 1..Len(inbox) : inbox[i].kind = "message" })

\* C16 as claimed: every event the server sent after 'open' is handled by the
\* listener exactly once (none lost, none handled twice), and the listener always
\* runs for the oldest event waiting.
C16_NoEventLost ==
  /\ [](handled + PendingMessages = noise + srvDone)
  /\ [][ (handled' = handled + 1)
         => (inbox # << >> /\ parsedMessage' = Head(inbox).msg /\ inbox' = Tail(inbox)) ]_vars

====
